---- MODULE Spec2Model ----
(***************************************************************************)
(* Model of ppcls/engine/trainer_logo.py: the Trainer.train epoch loop     *)
(* (resume, per-batch update, metric averaging, best-model selection and   *)
(* periodic checkpoints) and the Trainer.eval recall@1 retrieval.          *)
(*                                                                         *)
(* Two specifications share the variables:                                 *)
(*   SpecEval  - one call of Trainer.eval on concrete gallery and query    *)
(*               embeddings (features are exact rationals x/d, y/d);       *)
(*   Spec      - Trainer.train, where the recall each eval call returns    *)
(*               is an input drawn from RecallVals.                        *)
(***************************************************************************)
EXTENDS Integers, Sequences, FiniteSets

VARIABLES
    \* ---- Trainer.eval ----
    epc,            \* position inside Trainer.eval (SpecEval)
    gallery_loader, \* batches of the 'Test' dataloader: <<features, label>> items
    query_loader,   \* batches of the 'Eval' dataloader
    num_split,      \* Global.num_split
    tie,            \* how argsort orders equal similarities in this build
    idx,            \* loop index of the running for-loop of eval
    all_feas, all_labs, query_feas, query_labs,
    fea_blocks, choosen_label,
    recall,         \* value returned by eval: <<hits, queries>>
    \* ---- shared ----
    training,       \* self.model.training (Layer mode)
    \* ---- Trainer.train ----
    pc,             \* position inside Trainer.train
    config,         \* Global.* settings read by train and what init_model returns
    best_metric, output_info, global_step,
    epoch_id, iter_id, acc,
    loss_dict,      \* loss_dict / metric_dict of the running batch
    calls,          \* number of calls made into model, loss, optimizer and lr_sch
    saved,          \* save_load.save_model calls, in order
    history         \* epochs started and recalls returned by eval, in order

evalVars  == <<epc, gallery_loader, query_loader, num_split, tie, idx, all_feas,
               all_labs, query_feas, query_labs, fea_blocks, choosen_label, recall>>
trainVars == <<pc, config, best_metric, output_info, global_step, epoch_id,
               iter_id, acc, loss_dict, calls, saved, history>>
vars      == <<evalVars, training, trainVars>>

(***************************************************************************)
(* Bounds                                                                  *)
(***************************************************************************)
MaxGallery == 2     \* gallery items
MaxQuery   == 2     \* query items
MaxEpochs  == 3     \* Global.epochs
MaxSteps   == 2     \* len(train_dataloader)
MaxInterval == 2    \* save_interval, eval_during_train

None == <<>>

Min(S) == CHOOSE x \in S : \A y \in S : x <= y
Max(S) == CHOOSE x \in S : \A y \in S : x >= y

(***************************************************************************)
(* Inputs of Trainer.eval                                                  *)
(***************************************************************************)
\* the images of the datasets: <<out["features"] of the image, its label>>;
\* features are integer vectors with an integer L2 norm (5, 5, 10, 10)
Items == { <<<<3, 4>>, 0>>, <<<<4, 3>>, 1>>, <<<<0, 10>>, 0>>, <<<<0, 10>>, 1>> }

SeqsUpTo(S, n) == UNION { [1..k -> S] : k \in 1..n }

\* the batches a dataloader of batch size bs yields over the items, in order
Batches(items, bs) ==
    LET n  == Len(items)
        nb == (n + bs - 1) \div bs
    IN  [b \in 1..nb |->
            SubSeq(items, (b - 1) * bs + 1, Min({n, b * bs}))]

RECURSIVE Flatten(_)
Flatten(bs) == IF bs = <<>> THEN <<>> ELSE Head(bs) \o Flatten(Tail(bs))

(***************************************************************************)
(* Tensor operations used by Trainer.eval                                  *)
(***************************************************************************)
\* paddle.sqrt(paddle.sum(paddle.square(v), axis=1)) of one row
Norm(v) ==
    LET s == v[1] * v[1] + v[2] * v[2]
    IN  CHOOSE n \in 0..s : n * n = s

\* variant of Normalize that leaves the row as it is
NormalizeRaw(v) == <<v[1], v[2], 1>>

\* paddle.divide(batch_feas, feas_norm) of one row: the vector (x/d, y/d)
Normalize(v) == <<v[1], v[2], Norm(v)>>

\* one entry of paddle.matmul(block_fea, all_feas, transpose_y=True): num/den
Dot(a, b) == <<a[1] * b[1] + a[2] * b[2], a[3] * b[3]>>

Greater(r, s) == r[1] * s[2] > s[1] * r[2]

SimRow(q, feas) == [j \in 1..Len(feas) |-> Dot(q, feas[j])]

\* paddle.argsort(row, descending=True)[0]: an index of a largest entry
ArgSort0(row, t) ==
    LET best == { j \in 1..Len(row) : \A k \in 1..Len(row) : ~Greater(row[k], row[j]) }
    IN  IF t = "first" THEN Min(best) ELSE Max(best)

\* paddle.split(feas, num_or_sections=n): n consecutive blocks of equal size
Split(feas, n) ==
    LET size == Len(feas) \div n
    IN  [b \in 1..n |-> SubSeq(feas, (b - 1) * size + 1, b * size)]

\* labels gathered for one block of queries
BlockLabels(block, feas, labs, t) ==
    [i \in 1..Len(block) |-> labs[ArgSort0(SimRow(block[i], feas), t)]]

\* variant of Concat that puts the new rows first
ConcatFront(old, new) == IF old = None THEN new ELSE new \o old

\* x = new if x is None else paddle.concat([x, new])
Concat(old, new) == IF old = None THEN new ELSE old \o new

\* paddle.mean(paddle.cast(paddle.equal(a, b), 'float32')) as hits / count
MeanEqual(a, b) ==
    <<Cardinality({ i \in 1..Len(a) : a[i] = b[i] }), Len(a)>>

(***************************************************************************)
(* Trainer.eval, one call on concrete embeddings (SpecEval)                *)
(***************************************************************************)
BatchSizes == { 1, 2 }

Loaders(maxItems) ==
    { Batches(items, bs) : items \in SeqsUpTo(Items, maxItems), bs \in BatchSizes }

\* what init_model returns: None, or the bookkeeping of the loaded checkpoint
NoInfo == [isNone |-> TRUE, metric |-> 0, epoch |-> 0]

\* keys of loss_dict ("loss") and of metric_dict ("metric")
Keys == { "loss", "metric" }

\* dict(): no key has a meter
EmptyDict == [k \in Keys |-> << >>]

NoCalls == [forward |-> 0, loss |-> 0, backward |-> 0, opt_step |-> 0,
            clear_grad |-> 0, lr_step |-> 0, eval |-> 0]

\* state of Trainer.train while SpecEval runs eval alone (Trainer(mode="eval"))
TrainIdle ==
    /\ pc = "idle"
    /\ config = [epochs |-> 0, step_each_epoch |-> 1, save_interval |-> 1,
                 eval_during_train |-> 0, metric_func |-> FALSE,
                 checkpoints |-> FALSE, metric_info |-> NoInfo]
    /\ best_metric = [metric |-> 0, epoch |-> 0]
    /\ output_info = EmptyDict
    /\ global_step = 0
    /\ epoch_id = 0
    /\ iter_id = -1
    /\ acc = 0
    /\ loss_dict = EmptyDict
    /\ calls = NoCalls
    /\ saved = << >>
    /\ history = << >>

InitEval ==
    /\ epc = "start"
    /\ gallery_loader \in Loaders(MaxGallery)
    /\ query_loader \in Loaders(MaxQuery)
    /\ num_split \in 1..MaxQuery
    /\ tie \in { "first", "last" }
    /\ idx = 0
    /\ all_feas = None
    /\ all_labs = None
    /\ query_feas = None
    /\ query_labs = None
    /\ fea_blocks = None
    /\ choosen_label = None
    /\ recall = None
    /\ training = TRUE
    /\ TrainIdle

\* build the dataloaders, self.model.eval()
EvalEnter ==
    /\ epc = "start"
    /\ epc' = "gallery"
    /\ training' = FALSE
    /\ idx' = 0
    /\ UNCHANGED <<gallery_loader, query_loader, num_split, tie, all_feas, all_labs,
                   query_feas, query_labs, fea_blocks, choosen_label, recall>>
    /\ UNCHANGED trainVars

\* one iteration of "for idx, batch in enumerate(gallery_dataloader())"
GalleryBatch ==
    /\ epc = "gallery"
    /\ idx < Len(gallery_loader)
    /\ LET batch == gallery_loader[idx + 1]
           batch_feas   == [i \in 1..Len(batch) |-> Normalize(batch[i][1])]
           batch_labels == [i \in 1..Len(batch) |-> batch[i][2]]
       IN  /\ all_feas' = Concat(all_feas, batch_feas)
           /\ all_labs' = Concat(all_labs, batch_labels)
    /\ idx' = idx + 1
    /\ UNCHANGED <<epc, gallery_loader, query_loader, num_split, tie, query_feas,
                   query_labs, fea_blocks, choosen_label, recall>>
    /\ UNCHANGED <<training, trainVars>>

\* the gallery loop ends; the query loop starts
GalleryDone ==
    /\ epc = "gallery"
    /\ idx = Len(gallery_loader)
    /\ epc' = "query"
    /\ idx' = 0
    /\ UNCHANGED <<gallery_loader, query_loader, num_split, tie, all_feas, all_labs,
                   query_feas, query_labs, fea_blocks, choosen_label, recall>>
    /\ UNCHANGED <<training, trainVars>>

\* one iteration of "for idx, batch in enumerate(query_dataloader())"
QueryBatch ==
    /\ epc = "query"
    /\ idx < Len(query_loader)
    /\ LET batch == query_loader[idx + 1]
           batch_feas   == [i \in 1..Len(batch) |-> Normalize(batch[i][1])]
           batch_labels == [i \in 1..Len(batch) |-> batch[i][2]]
       IN  /\ query_feas' = Concat(query_feas, batch_feas)
           /\ query_labs' = Concat(query_labs, batch_labels)
    /\ idx' = idx + 1
    /\ UNCHANGED <<epc, gallery_loader, query_loader, num_split, tie, all_feas,
                   all_labs, fea_blocks, choosen_label, recall>>
    /\ UNCHANGED <<training, trainVars>>

\* the query loop ends; paddle.split raises unless num_split divides the queries
QueryDone ==
    /\ epc = "query"
    /\ idx = Len(query_loader)
    /\ IF Len(query_feas) % num_split = 0
       THEN /\ fea_blocks' = Split(query_feas, num_split)
            /\ epc' = "blocks"
       ELSE /\ fea_blocks' = fea_blocks
            /\ epc' = "error"
    /\ idx' = 0
    /\ UNCHANGED <<gallery_loader, query_loader, num_split, tie, all_feas, all_labs,
                   query_feas, query_labs, choosen_label, recall>>
    /\ UNCHANGED <<training, trainVars>>

\* one iteration of "for block_fea in fea_blocks"
RetrieveBlock ==
    /\ epc = "blocks"
    /\ idx < Len(fea_blocks)
    /\ LET choosen_label_tmp == BlockLabels(fea_blocks[idx + 1], all_feas, all_labs, tie)
       IN  choosen_label' = Concat(choosen_label, choosen_label_tmp)
    /\ idx' = idx + 1
    /\ UNCHANGED <<epc, gallery_loader, query_loader, num_split, tie, all_feas,
                   all_labs, query_feas, query_labs, fea_blocks, recall>>
    /\ UNCHANGED <<training, trainVars>>

\* recall = mean(equal(choosen_label, query_labs)); self.model.train(); return
EvalReturn ==
    /\ epc = "blocks"
    /\ idx = Len(fea_blocks)
    /\ recall' = MeanEqual(choosen_label, query_labs)
    /\ training' = TRUE
    /\ epc' = "done"
    /\ UNCHANGED <<gallery_loader, query_loader, num_split, tie, idx, all_feas, all_labs,
                   query_feas, query_labs, fea_blocks, choosen_label>>
    /\ UNCHANGED trainVars

NextEval ==
    \/ EvalEnter
    \/ GalleryBatch
    \/ GalleryDone
    \/ QueryBatch
    \/ QueryDone
    \/ RetrieveBlock
    \/ EvalReturn

SpecEval == InitEval /\ [][NextEval]_vars

(***************************************************************************)
(* Trainer.train (Spec)                                                    *)
(***************************************************************************)
\* recalls eval can return, in halves: 0.0, 0.5, 1.0
RecallVals == { 0, 1, 2 }

Configs ==
    { c \in [epochs : 1..MaxEpochs,
             step_each_epoch : 1..MaxSteps,
             save_interval : 1..MaxInterval,
             eval_during_train : 0..MaxInterval,
             metric_func : BOOLEAN,
             checkpoints : BOOLEAN,
             metric_info : {NoInfo} \cup [isNone : {FALSE}, metric : RecallVals,
                                           epoch : 0..MaxEpochs]] :
        ~c.checkpoints => c.metric_info = NoInfo }

Init ==
    /\ pc = "start"
    /\ config \in Configs
    /\ best_metric = [metric |-> 0, epoch |-> 0]
    /\ output_info = EmptyDict
    /\ global_step = 0
    /\ epoch_id = 0
    /\ iter_id = -1
    /\ acc = 0
    /\ loss_dict = EmptyDict
    /\ calls = NoCalls
    /\ saved = << >>
    /\ history = << >>
    /\ training = TRUE
    /\ epc = "idle"
    /\ gallery_loader = None
    /\ query_loader = None
    /\ num_split = 1
    /\ tie = "first"
    /\ idx = 0
    /\ all_feas = None
    /\ all_labs = None
    /\ query_feas = None
    /\ query_labs = None
    /\ fea_blocks = None
    /\ choosen_label = None
    /\ recall = None

\* the variables of eval that Spec abstracts away
evalData == <<gallery_loader, query_loader, num_split, tie, idx, all_feas, all_labs,
              query_feas, query_labs, fea_blocks, choosen_label>>

Event(kind, e, val) == [kind |-> kind, epoch |-> e, val |-> val]

\* best_metric.update(metric_info)
Update(bm, info) == [metric |-> info.metric, epoch |-> info.epoch]

\* variant of Resume that ignores the checkpoint
ResumeFresh(c) == [metric |-> 0, epoch |-> 0]

\* best_metric after "if checkpoints is not None: ... if metric_info is not None"
Resume(c) ==
    IF c.checkpoints /\ ~c.metric_info.isNone
    THEN Update([metric |-> 0, epoch |-> 0], c.metric_info)
    ELSE [metric |-> 0, epoch |-> 0]

\* eval_during_train and epoch_id % eval_during_train == 0
EvalScheduled(c, e) ==
    c.eval_during_train # 0 /\ e % c.eval_during_train = 0

\* epoch_id % save_interval == 0
SaveDue(c, e) == e % c.save_interval = 0

\* lines 105-137: builders, best_metric, output_info, global_step, resume
TrainSetup ==
    /\ pc = "start"
    /\ best_metric' = Resume(config)
    /\ output_info' = EmptyDict
    /\ global_step' = 0
    \* range(best_metric["epoch"] + 1, epochs + 1) starts after this epoch
    /\ epoch_id' = best_metric'.epoch
    /\ pc' = "epoch_head"
    /\ UNCHANGED <<config, iter_id, acc, loss_dict, calls, saved, history>>
    /\ UNCHANGED <<epc, evalData, recall, training>>

\* line 139-141: the next epoch_id of the range, then acc = self.eval(0)
EpochBegin ==
    /\ pc = "epoch_head"
    /\ epoch_id + 1 <= config.epochs
    /\ epoch_id' = epoch_id + 1
    /\ history' = Append(history, Event("epoch", epoch_id', 0))
    /\ pc' = "eval0"
    /\ epc' = "start"
    /\ UNCHANGED <<config, best_metric, output_info, global_step, iter_id, acc,
                   loss_dict, calls, saved>>
    /\ UNCHANGED <<evalData, recall, training>>

\* the range is exhausted: train returns
TrainReturn ==
    /\ pc = "epoch_head"
    /\ epoch_id + 1 > config.epochs
    /\ pc' = "done"
    /\ UNCHANGED <<config, best_metric, output_info, global_step, epoch_id, iter_id,
                   acc, loss_dict, calls, saved, history>>
    /\ UNCHANGED <<epc, evalData, recall, training>>

\* variant of CallEvalEnter that leaves the model mode alone
CallEvalEnterNoMode ==
    /\ pc \in { "eval0", "eval" }
    /\ epc = "start"
    /\ epc' = "gallery"
    /\ calls' = [calls EXCEPT !.eval = @ + 1]
    /\ UNCHANGED <<pc, config, best_metric, output_info, global_step, epoch_id,
                   iter_id, acc, loss_dict, saved, history>>
    /\ UNCHANGED <<evalData, recall, training>>

\* eval called from train, lines 222-229: dataloaders, self.model.eval()
CallEvalEnter ==
    /\ pc \in { "eval0", "eval" }
    /\ epc = "start"
    /\ epc' = "gallery"
    /\ training' = FALSE
    /\ calls' = [calls EXCEPT !.eval = @ + 1]
    /\ UNCHANGED <<pc, config, best_metric, output_info, global_step, epoch_id,
                   iter_id, acc, loss_dict, saved, history>>
    /\ UNCHANGED <<evalData, recall>>

\* lines 239-269: the gallery embeddings are computed
CallEvalGallery ==
    /\ pc \in { "eval0", "eval" }
    /\ epc = "gallery"
    /\ epc' = "query"
    /\ UNCHANGED <<pc, config, best_metric, output_info, global_step, epoch_id,
                   iter_id, acc, loss_dict, calls, saved, history>>
    /\ UNCHANGED <<evalData, recall, training>>

\* lines 271-299: the query embeddings are computed
CallEvalQuery ==
    /\ pc \in { "eval0", "eval" }
    /\ epc = "query"
    /\ epc' = "blocks"
    /\ UNCHANGED <<pc, config, best_metric, output_info, global_step, epoch_id,
                   iter_id, acc, loss_dict, calls, saved, history>>
    /\ UNCHANGED <<evalData, recall, training>>

\* lines 301-324: retrieval, recall, self.model.train(), return recall
CallEvalReturn ==
    /\ pc \in { "eval0", "eval" }
    /\ epc = "blocks"
    /\ \E r \in RecallVals : recall' = <<r, 2>>
    /\ training' = TRUE
    /\ epc' = "done"
    /\ UNCHANGED <<pc, config, best_metric, output_info, global_step, epoch_id,
                   iter_id, acc, loss_dict, calls, saved, history>>
    /\ UNCHANGED evalData

\* variant of AfterEval0 that keeps the recall in acc
AfterEval0Keep ==
    /\ pc = "eval0"
    /\ epc = "done"
    /\ acc' = recall[1]
    /\ recall' = None
    /\ training' = TRUE
    /\ epc' = "idle"
    /\ iter_id' = -1
    /\ pc' = "batch_head"
    /\ UNCHANGED <<config, best_metric, output_info, global_step, epoch_id,
                   loss_dict, calls, saved, history>>
    /\ UNCHANGED evalData

\* lines 141-143: acc = self.eval(0); acc = 0.0; self.model.train()
AfterEval0 ==
    /\ pc = "eval0"
    /\ epc = "done"
    /\ acc' = 0
    /\ recall' = None
    /\ training' = TRUE
    /\ epc' = "idle"
    /\ iter_id' = -1
    /\ pc' = "batch_head"
    /\ UNCHANGED <<config, best_metric, output_info, global_step, epoch_id,
                   loss_dict, calls, saved, history>>
    /\ UNCHANGED evalData

\* line 144: the next batch of enumerate(train_dataloader()), or the loop ends
BatchNext ==
    /\ pc = "batch_head"
    /\ IF iter_id + 1 < config.step_each_epoch
       THEN /\ iter_id' = iter_id + 1
            /\ pc' = "forward"
       ELSE /\ iter_id' = iter_id
            /\ pc' = "avg"
    /\ UNCHANGED <<config, best_metric, output_info, global_step, epoch_id, acc,
                   loss_dict, calls, saved, history>>
    /\ UNCHANGED <<epc, evalData, recall, training>>

\* lines 145-150: global_step += 1; out = self.model(batch[0], batch[1])
BatchForward ==
    /\ pc = "forward"
    /\ global_step' = global_step + 1
    /\ calls' = [calls EXCEPT !.forward = @ + 1]
    /\ pc' = "loss"
    /\ UNCHANGED <<config, best_metric, output_info, epoch_id, iter_id, acc,
                   loss_dict, saved, history>>
    /\ UNCHANGED <<epc, evalData, recall, training>>

\* output_info[key].update(value, batch_size) for a key of the batch <<e, i>>;
\* a missing key gets a new AverageMeter first
MeterUpdate(info, key, e, i) ==
    [info EXCEPT ![key] = Append(@, <<e, i>>)]

\* lines 152-157: loss_dict = loss_func(out, batch[-1]); every key updates its meter
BatchLoss ==
    /\ pc = "loss"
    /\ loss_dict' = [EmptyDict EXCEPT !["loss"] = <<epoch_id, iter_id>>]
    /\ calls' = [calls EXCEPT !.loss = @ + 1]
    /\ output_info' = MeterUpdate(output_info, "loss", epoch_id, iter_id)
    /\ pc' = "metric"
    /\ UNCHANGED <<config, best_metric, global_step, epoch_id, iter_id, acc, saved,
                   history>>
    /\ UNCHANGED <<epc, evalData, recall, training>>

\* lines 159-175: if metric_func is not None, every metric key updates its meter
BatchMetric ==
    /\ pc = "metric"
    /\ output_info' = IF config.metric_func
                      THEN MeterUpdate(output_info, "metric", epoch_id, iter_id)
                      ELSE output_info
    /\ pc' = "backward"
    /\ UNCHANGED <<config, best_metric, global_step, epoch_id, iter_id, acc,
                   loss_dict, calls, saved, history>>
    /\ UNCHANGED <<epc, evalData, recall, training>>

\* line 178: loss_dict["loss"].backward()
BatchBackward ==
    /\ pc = "backward"
    /\ calls' = [calls EXCEPT !.backward = @ + 1]
    /\ pc' = "opt_step"
    /\ UNCHANGED <<config, best_metric, output_info, global_step, epoch_id, iter_id,
                   acc, loss_dict, saved, history>>
    /\ UNCHANGED <<epc, evalData, recall, training>>

\* line 179: optimizer.step()
BatchOptStep ==
    /\ pc = "opt_step"
    /\ calls' = [calls EXCEPT !.opt_step = @ + 1]
    /\ history' = Append(history, Event("step", epoch_id, iter_id))
    /\ pc' = "clear_grad"
    /\ UNCHANGED <<config, best_metric, output_info, global_step, epoch_id, iter_id,
                   acc, loss_dict, saved>>
    /\ UNCHANGED <<epc, evalData, recall, training>>

\* variant of BatchClearGrad after which lr_sch.step() is not called
BatchClearGradSkipLr ==
    /\ pc = "clear_grad"
    /\ calls' = [calls EXCEPT !.clear_grad = @ + 1]
    /\ pc' = "batch_head"
    /\ UNCHANGED <<config, best_metric, output_info, global_step, epoch_id, iter_id,
                   acc, loss_dict, saved, history>>
    /\ UNCHANGED <<epc, evalData, recall, training>>

\* line 180: optimizer.clear_grad()
BatchClearGrad ==
    /\ pc = "clear_grad"
    /\ calls' = [calls EXCEPT !.clear_grad = @ + 1]
    /\ pc' = "lr_step"
    /\ UNCHANGED <<config, best_metric, output_info, global_step, epoch_id, iter_id,
                   acc, loss_dict, saved, history>>
    /\ UNCHANGED <<epc, evalData, recall, training>>

\* line 181: lr_sch.step()
BatchLrStep ==
    /\ pc = "lr_step"
    /\ calls' = [calls EXCEPT !.lr_step = @ + 1]
    /\ pc' = "batch_head"
    /\ UNCHANGED <<config, best_metric, output_info, global_step, epoch_id, iter_id,
                   acc, loss_dict, saved, history>>
    /\ UNCHANGED <<epc, evalData, recall, training>>

\* one save_load.save_model call: the prefix ("ppcls_epoch" with its number n), the
\* metric_info written, and the moment of the call: the running epoch, the
\* optimizer steps the saved parameters have received, the events before it
Ckpt(prefix, n, info, events) ==
    [prefix |-> prefix, n |-> n, metric |-> info.metric, epoch |-> info.epoch,
     at |-> epoch_id, step |-> calls.opt_step, pos |-> Len(events)]

\* variant of EpochAvg without output_info.clear()
EpochAvgNoClear ==
    /\ pc = "avg"
    /\ history' = Append(history, Event("avg", epoch_id, Len(output_info["loss"])))
    /\ IF EvalScheduled(config, epoch_id)
       THEN pc' = "eval" /\ epc' = "start"
       ELSE pc' = "save" /\ epc' = epc
    /\ UNCHANGED <<config, best_metric, output_info, global_step, epoch_id, iter_id,
                   acc, loss_dict, calls, saved>>
    /\ UNCHANGED <<evalData, recall, training>>

\* lines 183-194: the [Avg] line, output_info.clear(), is an evaluation scheduled?
EpochAvg ==
    /\ pc = "avg"
    /\ history' = Append(history, Event("avg", epoch_id, Len(output_info["loss"])))
    /\ output_info' = EmptyDict
    /\ IF EvalScheduled(config, epoch_id)
       THEN pc' = "eval" /\ epc' = "start"
       ELSE pc' = "save" /\ epc' = epc
    /\ UNCHANGED <<config, best_metric, global_step, epoch_id, iter_id, acc,
                   loss_dict, calls, saved>>
    /\ UNCHANGED <<evalData, recall, training>>

\* variant of IsBetter that lets a tie win
IsBetterOrEqual(a, bm) == a >= bm.metric

\* acc > best_metric["metric"]
IsBetter(a, bm) == a > bm.metric

\* lines 195-205: acc = self.eval(epoch_id); a better recall becomes best_metric
\* and is saved as "best_model"
AfterEval ==
    /\ pc = "eval"
    /\ epc = "done"
    /\ acc' = recall[1]
    /\ history' = Append(history, Event("eval", epoch_id, acc'))
    /\ IF IsBetter(acc', best_metric)
       THEN /\ best_metric' = [metric |-> acc', epoch |-> epoch_id]
            /\ saved' = Append(saved, Ckpt("best_model", 0, best_metric', history'))
       ELSE /\ best_metric' = best_metric
            /\ saved' = saved
    /\ recall' = None
    /\ epc' = "idle"
    /\ pc' = "save"
    /\ UNCHANGED <<config, output_info, global_step, epoch_id, iter_id, loss_dict,
                   calls>>
    /\ UNCHANGED <<evalData, training>>

\* variant of PeriodicInfo that writes best_metric
PeriodicInfoBest(a, e, bm) == bm

\* the metric_info of the periodic checkpoint: {"metric": acc, "epoch": epoch_id}
PeriodicInfo(a, e, bm) == [metric |-> a, epoch |-> e]

\* variant of PeriodicSave that saves every epoch
PeriodicSaveAlways ==
    /\ pc = "save"
    /\ saved' = Append(saved, Ckpt("ppcls_epoch", epoch_id,
                                   PeriodicInfo(acc, epoch_id, best_metric),
                                   history))
    /\ pc' = "epoch_head"
    /\ UNCHANGED <<config, best_metric, output_info, global_step, epoch_id, iter_id,
                   acc, loss_dict, calls, history>>
    /\ UNCHANGED <<epc, evalData, recall, training>>

\* lines 208-215: the periodic checkpoint "ppcls_epoch_{epoch_id}"
PeriodicSave ==
    /\ pc = "save"
    /\ saved' = IF SaveDue(config, epoch_id)
                THEN Append(saved, Ckpt("ppcls_epoch", epoch_id,
                                        PeriodicInfo(acc, epoch_id, best_metric),
                                   history))
                ELSE saved
    /\ pc' = "epoch_head"
    /\ UNCHANGED <<config, best_metric, output_info, global_step, epoch_id, iter_id,
                   acc, loss_dict, calls, history>>
    /\ UNCHANGED <<epc, evalData, recall, training>>

Next ==
    \/ TrainSetup
    \/ EpochBegin
    \/ TrainReturn
    \/ CallEvalEnter
    \/ CallEvalGallery
    \/ CallEvalQuery
    \/ CallEvalReturn
    \/ AfterEval0
    \/ BatchNext
    \/ BatchForward
    \/ BatchLoss
    \/ BatchMetric
    \/ BatchBackward
    \/ BatchOptStep
    \/ BatchClearGrad
    \/ BatchLrStep
    \/ EpochAvg
    \/ AfterEval
    \/ PeriodicSave

Spec == Init /\ [][Next]_vars

(***************************************************************************)
(* Properties of Trainer.eval (checked under SpecEval)                     *)
(***************************************************************************)
\* G and Q: the <<features, label>> pairs of the two dataloaders, in order
G == Flatten(gallery_loader)
Q == Flatten(query_loader)

RawDot(a, b) == a[1] * b[1] + a[2] * b[2]

\* cos(q, g1) > cos(q, g2); the norm of q is a common positive factor
CosGreater(q, g1, g2) == RawDot(q, g1) * Norm(g2) > RawDot(q, g2) * Norm(g1)

\* the gallery entries no other entry is closer to q than
Nearest(q) == { j \in 1..Len(G) : \A k \in 1..Len(G) : ~CosGreater(q, G[k][1], G[j][1]) }

UniqueNearest == \A i \in 1..Len(Q) : Cardinality(Nearest(Q[i][1])) = 1

Hits == { i \in 1..Len(Q) : G[CHOOSE j \in Nearest(Q[i][1]) : TRUE][2] = Q[i][2] }

\* C1: when every query has a unique nearest gallery entry by cosine similarity,
\* eval returns (queries whose nearest gallery entry has the query's label) / |Q|
C1_RecallAtOne ==
    (epc = "done" /\ UniqueNearest) => recall = <<Cardinality(Hits), Len(Q)>>

\* a run with two gallery entries of different directions and labels, where one
\* query is a hit and the other is not
C1_Witness ==
    /\ epc = "done"
    /\ UniqueNearest
    /\ Len(G) = 2 /\ G[1][1] # G[2][1] /\ G[1][2] # G[2][2]
    /\ Len(Q) = 2
    /\ Cardinality(Hits) = 1
    /\ recall = <<1, 2>>

\* the labels eval would choose without splitting (num_split = 1)
UnsplitLabels == BlockLabels(query_feas, all_feas, all_labs, tie)

\* C10: the labels concatenated over the blocks are aligned with query_labs, and
\* the recall returned is the recall of the unsplit retrieval
C10_SplitInvariant ==
    epc = "done" =>
        /\ Len(choosen_label) = Len(query_labs)
        /\ choosen_label = UnsplitLabels
        /\ recall = MeanEqual(UnsplitLabels, query_labs)

\* a run with two blocks whose chosen labels differ
C10_Witness ==
    /\ epc = "done"
    /\ num_split = 2
    /\ Len(fea_blocks) = 2
    /\ choosen_label[1] # choosen_label[2]
    /\ recall = <<1, 2>>

(***************************************************************************)
(* Properties of Trainer.train (checked under Spec)                        *)
(***************************************************************************)
\* the bookkeeping train starts from: what init_model returned, else 0.0 / 0
Start ==
    IF config.checkpoints /\ ~config.metric_info.isNone
    THEN [metric |-> config.metric_info.metric, epoch |-> config.metric_info.epoch]
    ELSE [metric |-> 0, epoch |-> 0]

EventsOf(kind) == SelectSeq(history, LAMBDA ev : ev.kind = kind)

\* the epochs the run has started, in order
Executed == [i \in 1..Len(EventsOf("epoch")) |-> EventsOf("epoch")[i].epoch]

\* the scheduled evaluations that have returned: epoch and recall, in order
Evals == EventsOf("eval")

Range(f) == { f[i] : i \in DOMAIN f }

Scheduled(e) == config.eval_during_train # 0 /\ e % config.eval_during_train = 0

\* epoch e has run to its end
Finished(e) ==
    /\ e \in Range(Executed)
    /\ e < epoch_id \/ pc \in { "epoch_head", "done" }

SavedAs(prefix) == { i \in 1..Len(saved) : saved[i].prefix = prefix }

\* highest of the starting metric and the scheduled recalls among the first p events
BestUpTo(p) ==
    Max({ Start.metric } \cup
        { history[i].val : i \in { j \in 1..p : history[j].kind = "eval" } })

\* the recall the scheduled evaluation of epoch e returned
EvalOf(e) == { ev.val : ev \in { x \in Range(Evals) : x.epoch = e } }

\* C2 as stated: every checkpoint records the highest recall evaluated so far and
\* the epoch at which it was obtained
C2_Original ==
    \A i \in 1..Len(saved) :
        LET sofar == { j \in 1..saved[i].pos : history[j].kind = "eval" }
        IN  sofar # {} =>
                /\ saved[i].metric = Max({ history[j].val : j \in sofar })
                /\ saved[i].metric \in EvalOf(saved[i].epoch)

\* C2 amended: a "best_model" checkpoint records the highest of the starting metric
\* and the scheduled recalls so far, obtained at the running epoch; a periodic
\* checkpoint "ppcls_epoch_N" records epoch N and the recall of the evaluation
\* scheduled for epoch N, or 0.0 when none was scheduled
C2_Amended ==
    /\ \A i \in SavedAs("best_model") :
          /\ saved[i].metric = BestUpTo(saved[i].pos)
          /\ saved[i].epoch = saved[i].at
          /\ EvalOf(saved[i].at) = { saved[i].metric }
    /\ \A i \in SavedAs("ppcls_epoch") :
          /\ saved[i].epoch = saved[i].n
          /\ saved[i].n = saved[i].at
          /\ IF Scheduled(saved[i].at)
             THEN EvalOf(saved[i].at) = { saved[i].metric }
             ELSE saved[i].metric = 0

\* a periodic checkpoint written after a lower recall than the best, next to a
\* "best_model" checkpoint
C2_Witness ==
    /\ SavedAs("best_model") # {}
    /\ \E i \in SavedAs("ppcls_epoch") :
          /\ Scheduled(saved[i].at)
          /\ saved[i].metric < best_metric.metric
          /\ saved[i].epoch > best_metric.epoch

\* C3: a finished epoch e has a "ppcls_epoch_e" checkpoint iff e % save_interval = 0;
\* the checkpoint holds the parameters after all updates of epoch e and is written
\* after the [Avg] line and the scheduled evaluation of that epoch
C3_PeriodicCheckpoint ==
    /\ \A e \in Range(Executed) :
          Finished(e) =>
              (Cardinality({ i \in SavedAs("ppcls_epoch") : saved[i].n = e })
                 = IF e % config.save_interval = 0 THEN 1 ELSE 0)
    /\ \A i \in SavedAs("ppcls_epoch") :
          LET e == saved[i].n
              before == SubSeq(history, 1, saved[i].pos)
          IN  /\ e = saved[i].at
              /\ e % config.save_interval = 0
              /\ saved[i].step = (e - Start.epoch) * config.step_each_epoch
              /\ \E ev \in Range(before) : ev.kind = "avg" /\ ev.epoch = e
              /\ Scheduled(e) => \E ev \in Range(before) : ev.kind = "eval" /\ ev.epoch = e
              /\ \A j \in 1..Len(history) :
                    (history[j].kind = "step" /\ history[j].epoch = e) => j <= saved[i].pos

\* a finished run with save_interval 2: epoch 2 is saved after its evaluation,
\* epochs 1 and 3 are not saved
C3_Witness ==
    /\ pc = "done"
    /\ config.save_interval = 2
    /\ Executed = <<1, 2, 3>>
    /\ Scheduled(2)
    /\ { saved[i].n : i \in SavedAs("ppcls_epoch") } = { 2 }

\* C4: the run executes the epochs Start.epoch + 1 .. Global.epochs, each once and in
\* increasing order; none, and no checkpoint, when Start.epoch >= Global.epochs
C4_Resume ==
    /\ \A i \in 1..Len(Executed) :
          Executed[i] = Start.epoch + i /\ Executed[i] <= config.epochs
    /\ pc = "done" =>
          /\ Len(Executed) = Max({ 0, config.epochs - Start.epoch })
          /\ Start.epoch >= config.epochs => saved = << >>
    /\ pc = "start" => Executed = << >>

\* a finished run resumed after epoch 1 of 3
C4_Witness ==
    /\ pc = "done"
    /\ config.checkpoints
    /\ Start.epoch = 1
    /\ Executed = <<2, 3>>

\* the batches whose parameter update (optimizer.step) has been made, in order
Steps == [i \in 1..Len(EventsOf("step")) |->
             <<EventsOf("step")[i].epoch, EventsOf("step")[i].val>>]

BatchPcs == { "forward", "loss", "metric", "backward", "opt_step", "clear_grad",
              "lr_step" }

\* the calls of the running batch that have been made, by position
DoneAt(p) ==
    [forward    |-> IF p \in BatchPcs \ { "forward" } THEN 1 ELSE 0,
     loss       |-> IF p \in { "metric", "backward", "opt_step", "clear_grad", "lr_step" }
                    THEN 1 ELSE 0,
     backward   |-> IF p \in { "opt_step", "clear_grad", "lr_step" } THEN 1 ELSE 0,
     opt_step   |-> IF p \in { "clear_grad", "lr_step" } THEN 1 ELSE 0,
     clear_grad |-> IF p = "lr_step" THEN 1 ELSE 0]

\* C5: the calls of a batch are made in the order forward, loss, backward,
\* optimizer.step, clear_grad, lr_sch.step, a batch starting only when the one before
\* has made all six; every batch of an executed epoch is updated exactly once; after
\* the run global_step, optimizer steps and scheduler steps equal n * step_each_epoch
C5_OneUpdatePerBatch ==
    LET whole == calls.lr_step
    IN  /\ calls.forward = whole + DoneAt(pc).forward
        /\ calls.loss = whole + DoneAt(pc).loss
        /\ calls.backward = whole + DoneAt(pc).backward
        /\ calls.opt_step = whole + DoneAt(pc).opt_step
        /\ calls.clear_grad = whole + DoneAt(pc).clear_grad
        /\ global_step = calls.forward
        /\ \A i \in 1..Len(Steps) :
              Steps[i] = <<Executed[((i - 1) \div config.step_each_epoch) + 1],
                           (i - 1) % config.step_each_epoch>>
        /\ pc = "done" =>
              /\ global_step = Len(Executed) * config.step_each_epoch
              /\ calls.opt_step = Len(Executed) * config.step_each_epoch
              /\ calls.lr_step = Len(Executed) * config.step_each_epoch
              /\ Len(Steps) = Len(Executed) * config.step_each_epoch

\* a finished run of at least two epochs of two batches
C5_Witness ==
    /\ pc = "done"
    /\ Len(Executed) >= 2
    /\ config.step_each_epoch = 2
    /\ global_step = 2 * Len(Executed)

\* C6: "best_model" is written at epoch e iff the evaluation scheduled at e returns
\* a recall strictly greater than the best so far; best_metric["metric"] is the
\* highest of the starting metric and the scheduled recalls, best_metric["epoch"]
\* the earliest epoch that reached it; evaluations happen at the scheduled epochs
C6_BestModel ==
    /\ pc # "start" =>
          /\ best_metric.metric = BestUpTo(Len(history))
          /\ best_metric.epoch =
                IF best_metric.metric = Start.metric THEN Start.epoch
                ELSE Min({ ev.epoch : ev \in { x \in Range(Evals) :
                                                  x.val = best_metric.metric } })
    /\ \A j \in 1..Len(history) :
          history[j].kind = "eval" =>
              /\ Scheduled(history[j].epoch)
              /\ (\E i \in SavedAs("best_model") : saved[i].at = history[j].epoch)
                    <=> history[j].val > BestUpTo(j - 1)
    /\ \A i \in SavedAs("best_model") :
          /\ EvalOf(saved[i].at) # {}
          /\ \A k \in SavedAs("best_model") : saved[k].at = saved[i].at => k = i
    /\ \A e \in Range(Executed) :
          (Finished(e) /\ Scheduled(e)) => EvalOf(e) # {}

\* a finished run where a later evaluation ties the best recall and the earlier
\* epoch stays the best
C6_Witness ==
    /\ pc = "done"
    /\ \E a, b \in Range(Evals) :
          /\ a.epoch < b.epoch
          /\ a.val = b.val
          /\ a.val = best_metric.metric
          /\ a.val > Start.metric
          /\ best_metric.epoch = a.epoch
    /\ Cardinality(SavedAs("best_model")) = 1

ActiveKeys == IF config.metric_func THEN { "loss", "metric" } ELSE { "loss" }

\* C7: output_info is empty when an epoch starts, and when the [Avg] line of epoch e
\* is logged the meter of every key holds one update per batch of epoch e, in order,
\* and nothing else
C7_PerEpochAverages ==
    /\ (pc = "eval0" \/ (pc = "batch_head" /\ iter_id = -1)) => output_info = EmptyDict
    /\ pc = "avg" =>
          \A k \in Keys :
              output_info[k] =
                  IF k \in ActiveKeys
                  THEN [i \in 1..config.step_each_epoch |-> <<epoch_id, i - 1>>]
                  ELSE << >>

\* the [Avg] line of the second executed epoch, two batches, loss and metric keys
C7_Witness ==
    /\ pc = "avg"
    /\ Len(Executed) = 2
    /\ config.metric_func
    /\ Len(output_info["loss"]) = 2
    /\ Len(output_info["metric"]) = 2

\* C8: every executed epoch starts with an eval call whose recall is dropped: acc is
\* 0.0 through the batches, a periodic checkpoint of an epoch without a scheduled
\* evaluation records 0.0, best_metric and "best_model" follow scheduled evaluations
\* only, and a finished run has called eval n + (scheduled epochs) times
C8_Eval0Discarded ==
    /\ (pc \in BatchPcs \cup { "batch_head", "avg", "eval" }) => acc = 0
    /\ \A i \in SavedAs("ppcls_epoch") :
          ~Scheduled(saved[i].at) => saved[i].metric = 0
    /\ \A i \in SavedAs("best_model") : Scheduled(saved[i].at)
    /\ best_metric.metric \in { Start.metric, 0 } \cup { ev.val : ev \in Range(Evals) }
    /\ (pc = "eval0" /\ epc # "start") =>
          calls.eval = Len(Executed) + Len(Evals)
    /\ pc = "done" =>
          calls.eval = Len(Executed)
                         + Cardinality({ e \in Range(Executed) : Scheduled(e) })

\* a finished run without scheduled evaluations that still called eval once per
\* epoch and saved periodic checkpoints
C8_Witness ==
    /\ pc = "done"
    /\ config.eval_during_train = 0
    /\ Len(Executed) >= 2
    /\ calls.eval = Len(Executed)
    /\ SavedAs("ppcls_epoch") # {}

\* C9: the training batches run in train mode, the embeddings of eval are computed
\* in eval mode, and eval returns with the model in train mode
C9_ModeDiscipline ==
    /\ pc \in BatchPcs => training
    /\ epc \in { "gallery", "query", "blocks" } => ~training
    /\ epc = "done" => training

\* the query embeddings of a scheduled evaluation, after batches have been trained
C9_Witness ==
    /\ pc = "eval"
    /\ epc = "query"
    /\ ~training
    /\ calls.forward >= 1
====
